---------------------------- MODULE Spec2Model ----------------------------
(***************************************************************************)
(* Model of exclude-addresses.py: a command line tool that prints the CIDR *)
(* blocks covering a target network minus a list of excluded networks.     *)
(*                                                                         *)
(* A network is a record [fam, base, plen]: address family (4 or 6), the   *)
(* integer value of its first address and its prefix length.  A string of  *)
(* the command line that may name a network is a token, a record           *)
(* [kind, fam, base, plen, pad]; text that is printed is a sequence of     *)
(* pieces, each one character or the text of a printed network.            *)
(***************************************************************************)
EXTENDS Integers, Sequences, FiniteSets, TLC

\* ------------------------------------------------------------------ bounds

\* Targets of the engine specification have at most MaxDepth host bits.
MaxDepth == 3
\* Largest exclusion set handed to the engine by the engine specification.
MaxExcl == 3
\* Most tokens in a delimited addresses string of the command line.
MaxTokens == 2

\* ------------------------------------------------- ipaddress: networks

Net(f, b, p) == [fam |-> f, base |-> b, plen |-> p]

\* IPv4Network / IPv6Network: _max_prefixlen
MaxPrefixLen(fam) == IF fam = 4 THEN 32 ELSE 128

Min(a, b) == IF a <= b THEN a ELSE b

num_addresses(n) == 2 ^ (MaxPrefixLen(n.fam) - n.plen)

broadcast_address(n) == n.base + num_addresses(n) - 1

\* a.subnet_of(b): b.network_address <= a.network_address and
\* b.broadcast_address >= a.broadcast_address (same version)
subnet_of(a, b) ==
    /\ a.fam = b.fam
    /\ b.base <= a.base
    /\ broadcast_address(b) >= broadcast_address(a)

supernet_of(a, b) == subnet_of(b, a)

\* net.supernet(): one bit shorter, host bits cleared; a /0 is its own supernet
supernet(n) ==
    IF n.plen = 0 THEN n
    ELSE LET size == 2 * num_addresses(n)
         IN  Net(n.fam, n.base - (n.base % size), n.plen - 1)

\* net.subnets(): the two halves, lower first
subnets(n) ==
    LET half == num_addresses(n) \div 2
    IN  << Net(n.fam, n.base, n.plen + 1), Net(n.fam, n.base + half, n.plen + 1) >>

\* Ordering of networks: by network address, then by netmask
NetLT(a, b) == a.base < b.base \/ (a.base = b.base /\ a.plen < b.plen)

RECURSIVE sorted(_)
sorted(S) ==
    IF S = {} THEN << >>
    ELSE LET m == CHOOSE x \in S : \A y \in S : y = x \/ NetLT(x, y)
         IN  << m >> \o sorted(S \ {m})

Range(s) == { s[i] : i \in DOMAIN s }

\* The loop of address_exclude once s1, s2 are the halves of the block that
\* still contains other.
RECURSIVE address_exclude_loop(_, _, _)
address_exclude_loop(s1, s2, other) ==
    IF s1 = other THEN << s2 >>
    ELSE IF s2 = other THEN << s1 >>
    ELSE IF subnet_of(other, s1)
         THEN << s2 >> \o address_exclude_loop(subnets(s1)[1], subnets(s1)[2], other)
         ELSE << s1 >> \o address_exclude_loop(subnets(s2)[1], subnets(s2)[2], other)

\* address_exclude keeping, at every halving, the half that holds other
\* instead of its sibling.
RECURSIVE address_exclude_loop_KeepsContaining(_, _, _)
address_exclude_loop_KeepsContaining(s1, s2, other) ==
    IF s1 = other THEN << s2 >>
    ELSE IF s2 = other THEN << s1 >>
    ELSE IF subnet_of(other, s1)
         THEN << s1 >> \o address_exclude_loop_KeepsContaining(
                              subnets(s1)[1], subnets(s1)[2], other)
         ELSE << s2 >> \o address_exclude_loop_KeepsContaining(
                              subnets(s2)[1], subnets(s2)[2], other)

address_exclude_KeepsContaining(self, other) ==
    IF other = self THEN << >>
    ELSE address_exclude_loop_KeepsContaining(subnets(self)[1], subnets(self)[2], other)

\* self.address_exclude(other), other a subnet of self: nothing when equal,
\* else the sibling of every block on the way down from self to other.
address_exclude(self, other) ==
    IF other = self THEN << >>
    ELSE address_exclude_loop(subnets(self)[1], subnets(self)[2], other)

\* ------------------------------------------- ipaddress: collapse_addresses

\* _count_righthand_zero_bits(number, bits)
RECURSIVE TrailingZeros(_)
TrailingZeros(n) == IF n % 2 = 1 THEN 0 ELSE 1 + TrailingZeros(n \div 2)

count_righthand_zero_bits(number, bits) ==
    IF number = 0 THEN bits ELSE Min(bits, TrailingZeros(number))

\* int.bit_length()
RECURSIVE bit_length(_)
bit_length(n) == IF n = 0 THEN 0 ELSE 1 + bit_length(n \div 2)

\* summarize_address_range(first, last): the aligned blocks covering first..last
RECURSIVE summarize_address_range(_, _, _)
summarize_address_range(fam, first, last) ==
    IF first > last THEN << >>
    ELSE LET ip_bits == MaxPrefixLen(fam)
             nbits   == Min(count_righthand_zero_bits(first, ip_bits),
                            bit_length(last - first + 1) - 1)
         IN  << Net(fam, first, ip_bits - nbits) >>
                \o summarize_address_range(fam, first + 2 ^ nbits, last)

\* _find_address_range(ips): the runs of consecutive addresses of a sorted,
\* deduplicated set of addresses, as <<first, last>> pairs in ascending order
RECURSIVE find_address_range(_)
find_address_range(ips) ==
    IF ips = {} THEN << >>
    ELSE LET first == CHOOSE a \in ips : \A b \in ips : a <= b
             last  == CHOOSE a \in ips :
                        /\ a >= first
                        /\ \A b \in first..a : b \in ips
                        /\ (a + 1) \notin ips
         IN  << << first, last >> >>
                \o find_address_range({ a \in ips : a > last })

RECURSIVE SummarizeRanges(_, _)
SummarizeRanges(fam, ranges) ==
    IF ranges = << >> THEN << >>
    ELSE summarize_address_range(fam, Head(ranges)[1], Head(ranges)[2])
            \o SummarizeRanges(fam, Tail(ranges))

\* First loop of _collapse_addresses_internal: to_merge is a stack, subnets a
\* dict from supernet to the one subnet seen under it; two different subnets
\* under one supernet are replaced by the supernet, which is pushed back.
RECURSIVE MergeLoop(_, _)
MergeLoop(to_merge, subs) ==
    IF to_merge = << >> THEN subs
    ELSE LET net  == to_merge[Len(to_merge)]
             rest == SubSeq(to_merge, 1, Len(to_merge) - 1)
             sup  == supernet(net)
         IN  IF sup \notin DOMAIN subs
             THEN MergeLoop(rest, (sup :> net) @@ subs)
             ELSE IF subs[sup] # net
                  THEN MergeLoop(Append(rest, sup),
                                 [k \in (DOMAIN subs) \ {sup} |-> subs[k]])
                  ELSE MergeLoop(rest, subs)

\* Second loop of _collapse_addresses_internal: over the sorted values, skip a
\* network whose broadcast address does not pass the last yielded one's.
RECURSIVE SkipSubsumed(_, _)
SkipSubsumed(nets, out) ==
    IF nets = << >> THEN out
    ELSE LET net == Head(nets)
         IN  IF out # << >> /\
                broadcast_address(out[Len(out)]) >= broadcast_address(net)
             THEN SkipSubsumed(Tail(nets), out)
             ELSE SkipSubsumed(Tail(nets), Append(out, net))

collapse_addresses_internal(addresses) ==
    LET subs == MergeLoop(addresses, << >>)
    IN  SkipSubsumed(sorted({ subs[k] : k \in DOMAIN subs }), << >>)

\* collapse_addresses(addresses): networks of full prefix length are handled as
\* single addresses (sorted, deduplicated, summarized run by run), the other
\* networks are kept in input order; both go through the internal collapse.
collapse_addresses(addresses) ==
    LET isHost(n) == n.plen = MaxPrefixLen(n.fam)
        fam   == IF addresses = << >> THEN 4 ELSE addresses[1].fam
        ips   == { n.base : n \in { m \in Range(addresses) : isHost(m) } }
        addrs == SummarizeRanges(fam, find_address_range(ips))
        nets  == SelectSeq(addresses, LAMBDA n : ~isHost(n))
    IN  collapse_addresses_internal(addrs \o nets)

\* ------------------------------------------------------ exclude_addresses

\* Line 80: the exclusions, collapsed and sorted.  The caller hands over a
\* generator over a set; the collapse does not depend on the order.
CollapsedExclusions(addresses_to_exclude) ==
    sorted(Range(collapse_addresses(sorted(addresses_to_exclude))))

\* Lines 83-87: the split of the target around every collapsed exclusion that
\* is a subnet of it, accumulated, deduplicated and sorted.
RECURSIVE SplitAll(_, _)
SplitAll(target_network, excl) ==
    IF excl = << >> THEN << >>
    ELSE (IF subnet_of(Head(excl), target_network)
          THEN address_exclude(target_network, Head(excl))
          ELSE << >>)
         \o SplitAll(target_network, Tail(excl))

SplitNetworks(target_network, excl) ==
    sorted(Range(SplitAll(target_network, excl)))

\* The removal pass without the supernet_of test of line 93.
PostFilter_SubnetOnly(networks, excl) ==
    LET networks_to_remove ==
            { n \in Range(networks) : \E a \in Range(excl) : supernet_of(a, n) }
    IN  SelectSeq(networks, LAMBDA n : n \notin networks_to_remove)

\* Lines 90-97: drop every block that is a subnet or a supernet of an exclusion.
PostFilter(networks, excl) ==
    LET networks_to_remove ==
            { n \in Range(networks) :
                \E a \in Range(excl) : subnet_of(a, n) \/ supernet_of(a, n) }
    IN  SelectSeq(networks, LAMBDA n : n \notin networks_to_remove)

\* exclude_addresses returning the accumulated split of line 87 as it is.
exclude_addresses_Unfiltered(target_network, addresses_to_exclude) ==
    SplitNetworks(target_network, CollapsedExclusions(addresses_to_exclude))

\* Lines 75-99
exclude_addresses(target_network, addresses_to_exclude) ==
    LET excl     == CollapsedExclusions(addresses_to_exclude)
        networks == SplitNetworks(target_network, excl)
    IN  collapse_addresses(PostFilter(networks, excl))

\* ------------------------------------------------------ strings and tokens

\* A command line string that may name a network.  kind "cidr" is written
\* address/length, "host" a bare address, "junk" is any other non-empty text
\* without comma or whitespace, "empty" is the empty string; pad says that the
\* text is surrounded by spaces.
Tok(k, f, b, p) == [kind |-> k, fam |-> f, base |-> b, plen |-> p, pad |-> FALSE]

Padded(t) == [t EXCEPT !.pad = TRUE]

EmptyTok == Tok("empty", 0, 0, 0)

\* str.strip() of a token
strip_token(t) == [t EXCEPT !.pad = FALSE]

Octet(b, i) == (b \div (256 ^ (3 - i))) % 256

\* str() of an address: dotted quad; the IPv6 addresses used here are :: and ::1
AddrText(fam, b) ==
    IF fam = 4
    THEN ToString(Octet(b, 0)) \o "." \o ToString(Octet(b, 1)) \o "."
            \o ToString(Octet(b, 2)) \o "." \o ToString(Octet(b, 3))
    ELSE IF b = 0 THEN "::" ELSE "::" \o ToString(b)

\* str(network): always address/length
str(n) == AddrText(n.fam, n.base) \o "/" \o ToString(n.plen)

\* The text of a token
TokText(t) ==
    LET core == CASE t.kind = "cidr"  -> AddrText(t.fam, t.base) \o "/" \o ToString(t.plen)
                  [] t.kind = "host"  -> AddrText(t.fam, t.base)
                  [] t.kind = "junk"  -> "foo" \o ToString(t.base)
                  [] t.kind = "empty" -> ""
    IN  IF t.pad THEN " " \o core \o " " ELSE core

\* str(item) of an element of an error set: a string or a network object
ItemText(x) == IF "kind" \in DOMAIN x THEN TokText(x) ELSE str(x)

\* is_string_a_valid_ip_address(item), lines 55-60
is_string_a_valid_ip_address(item) == item.kind = "host" /\ ~item.pad

\* is_string_a_valid_ip_network(item), lines 63-69 (strict=False): ip_network()
\* takes a bare address, or address/length with no host bit set.
is_string_a_valid_ip_network(item) ==
    /\ ~item.pad
    /\ \/ item.kind = "host"
       \/ /\ item.kind = "cidr"
          /\ item.plen \in 0..MaxPrefixLen(item.fam)
          /\ item.base % (2 ^ (MaxPrefixLen(item.fam) - item.plen)) = 0

\* ip_network(item) of a valid string: a bare address is a full-length network
ip_network(item) ==
    Net(item.fam, item.base,
        IF item.kind = "host" THEN MaxPrefixLen(item.fam) ELSE item.plen)

\* The addresses argument: absent (None), one token (delim "none"), or tokens
\* joined by commas, spaces or tabs.
AddrString(d, ts) == [delim |-> d, toks |-> ts]

NoAddresses == AddrString("absent", << >>)

\* bool(addrs_str): None and "" are false
Truthy(s) == ~(s.delim = "absent" \/ (s.delim = "none" /\ s.toks = << EmptyTok >>))

\* str(addrs_str).strip(), line 112.  Whitespace at the ends of a list is
\* whitespace around its first and last token, which the split removes.
strip(s) ==
    IF s.delim = "none" THEN AddrString("none", << strip_token(s.toks[1]) >>) ELSE s

Whitespace == { " ", "\n", "\t" }

\* str.strip() of a text given as a sequence of pieces, each one character or
\* the text of a network
RECURSIVE lstrip(_)
lstrip(s) == IF s # << >> /\ Head(s) \in Whitespace THEN lstrip(Tail(s)) ELSE s

RECURSIVE rstrip(_)
rstrip(s) ==
    IF s # << >> /\ s[Len(s)] \in Whitespace
    THEN rstrip(SubSeq(s, 1, Len(s) - 1)) ELSE s

strip_text(s) == rstrip(lstrip(s))

\* separator.join(items), items a sequence of texts
RECURSIVE join(_, _)
join(separator, items) ==
    IF items = << >> THEN << >>
    ELSE IF Len(items) = 1 THEN items[1]
    ELSE items[1] \o separator \o join(separator, Tail(items))

\* ------------------------------------------------------------------ state

VARIABLES
    pc,           \* where the run is: "main", "validated", "processed", "exit";
                  \* "call", "returned" for a bare call of exclude_addresses
    args,         \* the parsed command line (parse_arguments)
    target_net,   \* the target network object
    addrs_str,    \* the stripped addresses string
    addr_objs,    \* accepted exclusions
    inv_addrs,    \* invalid tokens
    mis_addrs,    \* networks of the other address family
    irr_addrs,    \* tokens / networks that are no subnet of the target
    excl,         \* exclude_addresses: its collapsed exclusions (line 80)
    networks,     \* exclude_addresses: the accumulated split (line 87)
    remaining,    \* exclude_addresses: networks after the removals (line 97)
    result_nets,  \* the engine's result
    engine_calls, \* number of calls of exclude_addresses
    stdout,       \* text written to standard output, a sequence of pieces
    stderr,       \* lines written to standard error
    exit_code     \* -1 while running

vars == << pc, args, target_net, addrs_str, addr_objs, inv_addrs, mis_addrs,
           irr_addrs, excl, networks, remaining, result_nets, engine_calls,
           stdout, stderr, exit_code >>

NoNet == Net(0, 0, 0)

\* One line of standard error: a text followed by the items of a set, joined
\* by spaces in the set's iteration order.
Line(t, is) == [text |-> t, items |-> is]

\* ------------------------------------------------------------------ inputs

V4(a, b, c, d) == ((a * 256 + b) * 256 + c) * 256 + d

GoodTarget == Tok("cidr", 4, V4(10, 0, 0, 0), 8)

NetworkPool ==
    { GoodTarget,
      Tok("cidr", 6, 0, 127),              \* ::/127
      Tok("junk", 0, 0, 0) }               \* not a network

\* Tokens a whitespace separated list can hold
WordPool ==
    { Tok("cidr", 4, V4(10, 1, 0, 0), 16),   \* strict subnet
      Tok("cidr", 4, V4(10, 0, 0, 0), 9),    \* lower half of the target
      Tok("cidr", 4, V4(10, 128, 0, 0), 9),  \* upper half of the target
      Tok("cidr", 4, V4(10, 0, 0, 0), 8),    \* the target itself
      Tok("cidr", 4, V4(10, 0, 0, 0), 7),    \* a supernet
      Tok("host", 4, V4(12, 0, 0, 1), 0),    \* a disjoint host
      Tok("host", 6, 1, 0),                  \* ::1
      Tok("cidr", 4, V4(10, 0, 0, 1), 8),    \* host bits set
      Tok("junk", 0, 1, 0) }                 \* not a network

\* Tokens between commas may also be empty or padded
ItemPool == WordPool \cup { EmptyTok, Padded(Tok("cidr", 4, V4(10, 1, 0, 0), 16)) }

RECURSIVE SeqsOfLen(_, _)
SeqsOfLen(S, n) ==
    IF n = 0 THEN { << >> }
    ELSE { Append(s, x) : s \in SeqsOfLen(S, n - 1), x \in S }

Lists(S) == UNION { SeqsOfLen(S, n) : n \in 2..MaxTokens }

AddressesPool ==
    { NoAddresses }
    \cup { AddrString("none", << t >>) : t \in ItemPool }
    \cup { AddrString("none", << Padded(t) >>) : t \in WordPool \cup { EmptyTok } }
    \cup { AddrString(",", ts) : ts \in Lists(ItemPool) }
    \cup { AddrString(" ", ts) : ts \in Lists(WordPool) }
    \cup { AddrString("\t", ts) : ts \in Lists(WordPool) }

\* --prefix / --postfix: the default, and a text with whitespace at both ends
AffixPool == { << >>, << " ", "x", " " >> }

SeparatorPool == { << "\n" >>, << ";" >> }

\* parse_arguments, lines 21-42
ArgsPool ==
    [ network : NetworkPool, addresses : AddressesPool, separator : SeparatorPool,
      prefix : AffixPool, postfix : AffixPool, ignore : BOOLEAN ]

\* ------------------------------------------------------------ process_args

\* Lines 139-146: the tokens of a string that is no single network, or "die"
\* when it holds neither a comma nor a space.
SplitTokens(s) ==
    IF s.delim = ","
    THEN { strip_token(a) : a \in { b \in Range(s.toks) : strip_token(b) # EmptyTok } }
    ELSE Range(s.toks)

\* Lines 127-137: the whole string is one network
ClassifySingle(target, s) ==
    LET net_a == ip_network(s.toks[1])
    IN  IF net_a.fam # target.fam
        THEN [objs |-> {}, inv |-> {}, mis |-> { net_a }, irr |-> {}]
        ELSE IF ~subnet_of(net_a, target)
        THEN [objs |-> {}, inv |-> {}, mis |-> {}, irr |-> { net_a }]
        ELSE [objs |-> { net_a }, inv |-> {}, mis |-> {}, irr |-> {}]

\* The loop of lines 148-160 without the subnet_of test of line 157.
ClassifyList_NoSubnetCheck(target, addrs) ==
    LET valid == { a \in addrs : is_string_a_valid_ip_network(a) }
    IN  [ objs |-> { ip_network(a) : a \in
                       { b \in valid : ip_network(b).fam = target.fam } },
          inv  |-> addrs \ valid,
          mis  |-> { ip_network(a) : a \in
                       { b \in valid : ip_network(b).fam # target.fam } },
          irr  |-> {} ]

\* Lines 148-160: every token of the list is classified
ClassifyList(target, addrs) ==
    LET valid == { a \in addrs : is_string_a_valid_ip_network(a) }
    IN  [ objs |-> { ip_network(a) : a \in
                       { b \in valid : ip_network(b).fam = target.fam
                                       /\ subnet_of(ip_network(b), target) } },
          inv  |-> addrs \ valid,
          mis  |-> { ip_network(a) : a \in
                       { b \in valid : ip_network(b).fam # target.fam } },
          irr  |-> { b \in valid : ip_network(b).fam = target.fam
                                   /\ ~subnet_of(ip_network(b), target) } ]

IsSingle(s) == s.delim = "none" /\ is_string_a_valid_ip_network(s.toks[1])

\* Line 143: no comma and no space in a string that is no network
Unsplittable(s) == ~IsSingle(s) /\ s.delim \notin { ",", " " }

process_args(target, s) ==
    IF IsSingle(s) THEN ClassifySingle(target, s)
    ELSE ClassifyList(target, SplitTokens(s))

\* ---------------------------------------------------------------- actions

\* The text of an addresses string
RECURSIVE JoinToks(_, _)
JoinToks(d, ts) ==
    IF Len(ts) = 1 THEN TokText(ts[1])
    ELSE TokText(ts[1]) \o d \o JoinToks(d, Tail(ts))

StringText(s) == JoinToks(s.delim, s.toks)

\* die(code, message), lines 45-52: a non-empty message goes to standard
\* output when the code is 0, else to standard error; print() ends the line.
DieOut(code, message) ==
    IF message # << >> /\ code = 0 THEN message \o << "\n" >> ELSE << >>

DieErr(code, lines) == IF lines # << >> /\ code # 0 THEN lines ELSE << >>

Die(code, message, lines) ==
    /\ stdout' = DieOut(code, message)
    /\ stderr' = DieErr(code, lines)
    /\ exit_code' = code
    /\ pc' = "exit"

Init ==
    /\ pc = "main"
    /\ args \in ArgsPool
    /\ target_net = NoNet
    /\ addrs_str = NoAddresses
    /\ addr_objs = {} /\ inv_addrs = {} /\ mis_addrs = {} /\ irr_addrs = {}
    /\ excl = << >> /\ networks = << >> /\ remaining = << >>
    /\ result_nets = << >>
    /\ engine_calls = 0
    /\ stdout = << >> /\ stderr = << >>
    /\ exit_code = -1

\* The message of line 109, with ARGHELP_ADDRESSES of line 14
MissingAddresses ==
    "Missing addresses argument. It must be a comma or whitespace separated "
        \o "addresses of hosts and/or networks to be excluded."

\* validate_args, lines 102-114
ValidateArgs ==
    /\ pc = "main"
    /\ IF ~is_string_a_valid_ip_network(args.network)
       THEN /\ Die(1, << >>,
                   << Line(TokText(args.network) \o " is not a valid ip network.", {}) >>)
            /\ UNCHANGED << target_net, addrs_str >>
       ELSE IF ~Truthy(args.addresses)
       THEN /\ Die(2, << >>, << Line(MissingAddresses, {}) >>)
            /\ UNCHANGED << target_net, addrs_str >>
       ELSE /\ target_net' = ip_network(args.network)
            /\ addrs_str' = strip(args.addresses)
            /\ pc' = "validated"
            /\ UNCHANGED << stdout, stderr, exit_code >>
    /\ UNCHANGED << args, addr_objs, inv_addrs, mis_addrs, irr_addrs, excl,
                    networks, remaining, result_nets, engine_calls >>

\* process_args, lines 117-162
ProcessArgs ==
    /\ pc = "validated"
    /\ IF Unsplittable(addrs_str)
       THEN /\ Die(2, << >>,
                   << Line(StringText(addrs_str) \o " is not a valid ip network.", {}) >>)
            /\ UNCHANGED << addr_objs, inv_addrs, mis_addrs, irr_addrs >>
       ELSE LET r == process_args(target_net, addrs_str)
            IN  /\ addr_objs' = r.objs
                /\ inv_addrs' = r.inv
                /\ mis_addrs' = r.mis
                /\ irr_addrs' = r.irr
                /\ pc' = "processed"
                /\ UNCHANGED << stdout, stderr, exit_code >>
    /\ UNCHANGED << args, target_net, addrs_str, excl, networks, remaining,
                    result_nets, engine_calls >>

\* main, line 200
HasErrors == inv_addrs # {} \/ mis_addrs # {} \/ irr_addrs # {}

\* print_errors_and_exit, lines 165-179: one line per non-empty category
ErrorLine(label, items) ==
    IF Cardinality(items) > 0
    THEN << Line(label \o (IF Cardinality(items) > 1 THEN "es" ELSE "") \o ": ",
                 { ItemText(x) : x \in items }) >>
    ELSE << >>

ErrorReport(inv, mis, irr) ==
    ErrorLine("invalid address", inv)
        \o ErrorLine("misfitting address", mis)
        \o ErrorLine("irrelevant address", irr)

PrintErrorsAndExit ==
    /\ pc = "processed"
    /\ ~args.ignore /\ HasErrors
    /\ Die(2, << >>, ErrorReport(inv_addrs, mis_addrs, irr_addrs))
    /\ UNCHANGED << args, target_net, addrs_str, addr_objs, inv_addrs,
                    mis_addrs, irr_addrs, excl, networks, remaining,
                    result_nets, engine_calls >>

\* The call of exclude_addresses with its locals kept for inspection
CallEngine(T, E) ==
    /\ excl' = CollapsedExclusions(E)
    /\ networks' = SplitNetworks(T, CollapsedExclusions(E))
    /\ remaining' = PostFilter(SplitNetworks(T, CollapsedExclusions(E)),
                               CollapsedExclusions(E))
    /\ engine_calls' = engine_calls + 1

\* print_result_and_exit, lines 182-185: the message handed to die(0, ...)
RECURSIVE Wrap(_, _, _)
Wrap(nets, prefix, postfix) ==
    IF nets = << >> THEN << >>
    ELSE << prefix \o << str(Head(nets)) >> \o postfix >>
            \o Wrap(Tail(nets), prefix, postfix)

ResultMessage(nets, separator, prefix, postfix) ==
    strip_text(join(separator, Wrap(nets, prefix, postfix)))

\* main, lines 203-207: what is handed to die(0, ...) for the sorted result
MainMessage(target, nets, separator, prefix, postfix) ==
    IF Len(nets) = 0 THEN << str(target) >>
    ELSE ResultMessage(nets, separator, prefix, postfix)

\* main, lines 202-208
ExcludeAndPrint ==
    /\ pc = "processed"
    /\ ~(~args.ignore /\ HasErrors)
    /\ CallEngine(target_net, addr_objs)
    /\ LET nets == sorted(Range(exclude_addresses(target_net, addr_objs)))
       IN  /\ result_nets' = nets
           /\ Die(0, MainMessage(target_net, nets, args.separator, args.prefix,
                                 args.postfix), << >>)
    /\ UNCHANGED << args, target_net, addrs_str, addr_objs, inv_addrs,
                    mis_addrs, irr_addrs >>

Next == ValidateArgs \/ ProcessArgs \/ PrintErrorsAndExit \/ ExcludeAndPrint

Spec == Init /\ [][Next]_vars

\* ----------------------------------------- exclude_addresses called alone

\* All CIDR blocks inside a block
Blocks(T) ==
    UNION { { Net(T.fam, T.base + i * (2 ^ (MaxPrefixLen(T.fam) - p)), p) :
                i \in 0..(2 ^ (p - T.plen) - 1) } :
            p \in T.plen..MaxPrefixLen(T.fam) }

RECURSIVE SubsetsUpTo(_, _)
SubsetsUpTo(S, k) ==
    IF k = 0 THEN { {} }
    ELSE LET P == SubsetsUpTo(S, k - 1)
         IN  P \cup { p \cup { x } : p \in P, x \in S }

EngineRegion == Net(4, V4(10, 0, 0, 0), 32 - MaxDepth)

EngineInit ==
    /\ pc = "call"
    /\ args = [ network |-> EmptyTok, addresses |-> NoAddresses,
                separator |-> << "\n" >>, prefix |-> << >>, postfix |-> << >>,
                ignore |-> FALSE ]
    /\ target_net \in Blocks(EngineRegion)
    /\ addr_objs \in SubsetsUpTo(Blocks(target_net), MaxExcl)
    /\ addrs_str = NoAddresses
    /\ inv_addrs = {} /\ mis_addrs = {} /\ irr_addrs = {}
    /\ excl = << >> /\ networks = << >> /\ remaining = << >>
    /\ result_nets = << >>
    /\ engine_calls = 0
    /\ stdout = << >> /\ stderr = << >>
    /\ exit_code = -1

\* exclude_addresses(target_net, addr_objs), lines 75-99
Exclude ==
    /\ pc = "call"
    /\ CallEngine(target_net, addr_objs)
    /\ result_nets' = exclude_addresses(target_net, addr_objs)
    /\ pc' = "returned"
    /\ UNCHANGED << args, target_net, addrs_str, addr_objs, inv_addrs,
                    mis_addrs, irr_addrs, stdout, stderr, exit_code >>

EngineNext == Exclude

EngineSpec == EngineInit /\ [][EngineNext]_vars

\* ------------------------------------------------ properties of the engine

\* The addresses of a network, and of a collection of networks
Addrs(n) == n.base..(n.base + 2 ^ (MaxPrefixLen(n.fam) - n.plen) - 1)

AddrsOf(S) == UNION { Addrs(n) : n \in S }

Overlap(a, b) == Addrs(a) \cap Addrs(b) # {}

StrictlyInside(a, b) == Addrs(a) \subseteq Addrs(b) /\ Addrs(a) # Addrs(b)

\* Two blocks that are the two halves of one aligned block
Halves(a, b) ==
    /\ a # b /\ a.plen = b.plen /\ a.plen > 0
    /\ a.base \div (2 * Cardinality(Addrs(a))) = b.base \div (2 * Cardinality(Addrs(b)))

Returned == pc = "returned"

\* C1 (as claimed): for every set of strict subnets of the target, the result
\* and the collapsed exclusions together hold exactly the addresses of the
\* target, and no result block shares an address with an exclusion.
C1_Coverage ==
    (Returned /\ \A e \in addr_objs : StrictlyInside(e, target_net)) =>
        /\ AddrsOf(Range(result_nets)) \cup AddrsOf(Range(excl)) = Addrs(target_net)
        /\ AddrsOf(Range(result_nets)) \cap AddrsOf(addr_objs) = {}

\* C1 for a non-empty exclusion set: the part of the coverage claim the engine
\* meets.
C1_CoverageNonEmpty ==
    (Returned /\ addr_objs # {}) =>
        /\ AddrsOf(Range(result_nets)) \cup AddrsOf(Range(excl)) = Addrs(target_net)
        /\ AddrsOf(Range(result_nets)) \cap AddrsOf(addr_objs) = {}

\* C2 (as claimed): called with no exclusion, the engine returns the target
\* alone.
C2_EmptyIdentity ==
    (Returned /\ addr_objs = {}) => result_nets = << target_net >>

\* What the engine returns when called with no exclusion: nothing.
C2_EmptyGivesNothing ==
    (Returned /\ addr_objs = {}) => result_nets = << >>

\* C7: the result is a fixed point of the collapse: blocks pairwise disjoint
\* (so none nested in another), no two of them the halves of one block, in
\* ascending order, and collapsing it again gives the same sequence.
C7_FixedPoint ==
    Returned =>
        /\ \A i, j \in DOMAIN result_nets :
              i < j => /\ ~Overlap(result_nets[i], result_nets[j])
                       /\ ~Halves(result_nets[i], result_nets[j])
                       /\ NetLT(result_nets[i], result_nets[j])
        /\ collapse_addresses(result_nets) = result_nets

C7_Witness ==
    /\ Returned
    /\ Len(excl) >= 2
    /\ Len(result_nets) >= 2
    /\ Len(networks) > Len(remaining)

\* C10: every block of the accumulated split is disjoint from, inside, or
\* around each collapsed exclusion; after the removals no block shares an
\* address with an exclusion; and every address of the target outside the
\* exclusions that an accumulated block covers is still covered.
C10_PostFilter ==
    Returned =>
        /\ \A b \in Range(networks) : \A e \in Range(excl) :
              \/ ~Overlap(b, e)
              \/ Addrs(b) \subseteq Addrs(e)
              \/ Addrs(e) \subseteq Addrs(b)
        /\ \A b \in Range(remaining) : \A e \in Range(excl) : ~Overlap(b, e)
        /\ (AddrsOf(Range(networks)) \ AddrsOf(Range(excl)))
              \subseteq AddrsOf(Range(remaining))

C10_Witness ==
    /\ Returned
    /\ Len(excl) >= 2
    /\ \E b \in Range(networks) : b \notin Range(remaining)
    /\ remaining # << >>

\* --------------------------------------------- properties of the whole run

First(n) == n.base

Last(n) == n.base + 2 ^ (MaxPrefixLen(n.fam) - n.plen) - 1

Within(n, T) == n.fam = T.fam /\ First(T) <= First(n) /\ Last(n) <= Last(T)

Disjoint(n, T) == n.fam = T.fam /\ (Last(n) < First(T) \/ Last(T) < First(n))

\* The tokens process_args classifies
InputTokens(s) == IF IsSingle(s) THEN { s.toks[1] } ELSE SplitTokens(s)

\* The parseable tokens of the target's family
SameFamily(s, T) ==
    { a \in InputTokens(s) :
        is_string_a_valid_ip_network(a) /\ ip_network(a).fam = T.fam }

\* The token is in the irrelevant set, as a string or as a network object
InIrrelevant(a) == a \in irr_addrs \/ ip_network(a) \in irr_addrs

Exited == pc = "exit"

TargetValid == is_string_a_valid_ip_network(args.network)

\* C3 (as claimed): when the engine ran and the collapsed exclusions are the
\* whole target, the run exits with code 0 and writes nothing to standard
\* output.
C3_FullyExcludedSilent ==
    (Exited /\ engine_calls = 1 /\ excl = << target_net >>) =>
        (exit_code = 0 /\ stdout = << >>)

\* C4 (as claimed): a parseable token of the target's family that is equal to
\* the target, a supernet of it or disjoint from it is put in the irrelevant
\* set and not in the accepted set; only strict subnets are accepted.
C4_Irrelevant ==
    pc = "processed" =>
        /\ \A a \in SameFamily(addrs_str, target_net) :
              LET n == ip_network(a)
              IN  (n = target_net \/ Within(target_net, n) \/ Disjoint(n, target_net))
                      => (InIrrelevant(a) /\ n \notin addr_objs)
        /\ \A n \in addr_objs : Within(n, target_net) /\ n # target_net

\* C4 (amended): a strict supernet of the target and a network disjoint from
\* it are put in the irrelevant set and not in the accepted set; a token equal
\* to the target is accepted and not irrelevant; every accepted network lies
\* within the target.  On the single-token path and on the list path alike.
C4_Classification ==
    pc = "processed" =>
        /\ \A a \in SameFamily(addrs_str, target_net) :
              LET n == ip_network(a)
              IN  /\ ((Within(target_net, n) /\ n # target_net) \/ Disjoint(n, target_net))
                        => (InIrrelevant(a) /\ n \notin addr_objs)
                  /\ n = target_net => (n \in addr_objs /\ ~InIrrelevant(a))
        /\ \A n \in addr_objs : Within(n, target_net)

C4_Witness ==
    /\ pc = "processed"
    /\ ~IsSingle(addrs_str)
    /\ target_net \in addr_objs
    /\ \E a \in SameFamily(addrs_str, target_net) :
          /\ a \in irr_addrs
          /\ \/ Disjoint(ip_network(a), target_net)
             \/ (Within(target_net, ip_network(a)) /\ ip_network(a) # target_net)

\* The addresses string holds more than whitespace
NonBlank(s) == Truthy(s) /\ strip(s).toks # << EmptyTok >>

\* C5 (as claimed): with --ignore, a valid target and a non-empty addresses
\* string, the run never fails: the engine is called once and the exit code
\* is 0.
C5_IgnoreNeverFails ==
    (Exited /\ args.ignore /\ TargetValid /\ NonBlank(args.addresses)) =>
        (exit_code = 0 /\ engine_calls = 1 /\ stderr = << >>)

\* The non-empty stripped tokens of a delimited list
ListTokens(s) == { strip_token(a) : a \in Range(s.toks) } \ { EmptyTok }

Accepted(a, T) ==
    /\ is_string_a_valid_ip_network(a)
    /\ ip_network(a).fam = T.fam
    /\ Within(ip_network(a), T)

\* The token is listed on a line of the error report under the given label
Reported(label, text) ==
    \E i \in DOMAIN stderr :
        /\ stderr[i].text \in { label \o ": ", label \o "es: " }
        /\ text \in stderr[i].items

ReportedInCategory(a, T) ==
    IF ~is_string_a_valid_ip_network(a) THEN Reported("invalid address", TokText(a))
    ELSE IF ip_network(a).fam # T.fam
         THEN Reported("misfitting address", str(ip_network(a)))
         ELSE Reported("irrelevant address", TokText(a))

Classified(a) ==
    \/ a \in inv_addrs \/ a \in irr_addrs
    \/ (is_string_a_valid_ip_network(a) /\ ip_network(a) \in mis_addrs \cup addr_objs)

\* What C6 says of a run without --ignore over the list s with a bad token
AllClassifiedAndReported(s) ==
    LET T   == ip_network(args.network)
        bad == { a \in ListTokens(s) : ~Accepted(a, T) }
    IN  bad # {} =>
          /\ \A a \in ListTokens(s) : Classified(a)
          /\ exit_code = 2
          /\ engine_calls = 0
          /\ stdout = << >>
          /\ \A a \in bad : ReportedInCategory(a, T)

\* C6 (as claimed): without --ignore, every token of a comma or whitespace
\* delimited list is classified; if one is invalid, mismatched or irrelevant
\* the run exits with code 2, the engine is not called, nothing is written to
\* standard output and the report lists every such token under its category.
C6_AllReported ==
    (Exited /\ ~args.ignore /\ TargetValid
        /\ args.addresses.delim \in { ",", " ", "\t" })
      => AllClassifiedAndReported(args.addresses)

\* C6 for lists delimited by commas or by spaces: the lists that reach the
\* classification loop.
C6_CommaOrSpaceLists ==
    (Exited /\ ~args.ignore /\ TargetValid
        /\ args.addresses.delim \in { ",", " " })
      => AllClassifiedAndReported(args.addresses)

\* C8 (as claimed): whatever a run with exit code 0 writes to standard output
\* is its networks, each as prefix + network + postfix, joined by the
\* separator (up to whitespace at both ends of the whole text); the networks
\* are the result, or the target when nothing was excluded.
C8_Formatted ==
    (Exited /\ exit_code = 0 /\ stdout # << >>) =>
        LET written == IF result_nets = << >> THEN << target_net >> ELSE result_nets
        IN  stdout = strip_text(join(args.separator,
                                     Wrap(written, args.prefix, args.postfix)))
                        \o << "\n" >>

Example1 ==
    /\ Exited /\ engine_calls = 1
    /\ target_net = Net(4, V4(10, 0, 0, 0), 8)
    /\ addr_objs = { Net(4, V4(10, 1, 0, 0), 16) }

\* C9 (as claimed): 10.0.0.0/8 minus 10.1.0.0/16 is the nine blocks of the
\* example.
C9_NineBlocks ==
    Example1 =>
        Range(result_nets) =
            { Net(4, V4(10, 0, 0, 0), 9),   Net(4, V4(10, 128, 0, 0), 10),
              Net(4, V4(10, 64, 0, 0), 11), Net(4, V4(10, 32, 0, 0), 11),
              Net(4, V4(10, 16, 0, 0), 12), Net(4, V4(10, 8, 0, 0), 13),
              Net(4, V4(10, 4, 0, 0), 14),  Net(4, V4(10, 2, 0, 0), 15),
              Net(4, V4(10, 0, 0, 0), 16) }

\* C9 (amended): 10.0.0.0/8 minus 10.1.0.0/16 is the eight siblings met when
\* halving the target down to the exclusion, in ascending order.
C9_EightBlocks ==
    Example1 =>
        result_nets =
            << Net(4, V4(10, 0, 0, 0), 16),  Net(4, V4(10, 2, 0, 0), 15),
               Net(4, V4(10, 4, 0, 0), 14),  Net(4, V4(10, 8, 0, 0), 13),
               Net(4, V4(10, 16, 0, 0), 12), Net(4, V4(10, 32, 0, 0), 11),
               Net(4, V4(10, 64, 0, 0), 10), Net(4, V4(10, 128, 0, 0), 9) >>

C9_Witness == Example1 /\ Len(result_nets) = 8

=============================================================================
